---- MODULE Spec2Model ----
(***************************************************************************)
(* The per-agent decision model of the MultiMAuS transaction simulator:    *)
(* simulator/customer_unimaus.py (UniMausCustomer and its genuine and      *)
(* fraudulent specialisations).                                            *)
(*                                                                         *)
(* Numbers.  Real values are kept as exact fractions over fixed            *)
(* denominators:                                                           *)
(*   - a uniform(0, 1) draw is k / UniformSteps with k in 0..UniformSteps-1*)
(*     (the draw never returns 1);                                         *)
(*   - a probability parameter is k / UniformSteps with k in               *)
(*     0..UniformSteps;                                                    *)
(*   - avg_trans_per_hour is avg_trans_per_hour / AvgDen;                  *)
(*   - the yearly rate, the Gaussian additions and the curve entries are   *)
(*     integers.                                                           *)
(***************************************************************************)
EXTENDS Integers, Sequences, FiniteSets

\* ---------------------------------------------------------------- bounds

\* resolution of the uniform draws and of the probability parameters
UniformSteps == 2
\* largest magnitude of the Gaussian addition to the yearly rate; the
\* nonzero base yearly rate of the parameter tables is one less
MaxRateNoise == 2
\* largest magnitude of one entry of a multivariate-normal perturbation
MaxCurveNoise == 1
\* size of the population model.customers
NumCustomers == 2

\* ------------------------------------------------------ program constants

MonthLen == 12
MonthdayLen == 31
WeekdayLen == 7
HourLen == 24
DaysPerYear == 366
HoursPerDay == 24

\* ------------------------------------------------------------- the state

VARIABLES
    \* the transaction model (orchestrator side)
    params,             \* the parameter tables
    customers,          \* model.customers: the genuine population
    merchants,          \* model.merchants: the merchant registry
    next_card_id,       \* the counter behind model.get_next_card_id()
    \* the agent (self)
    fraudster,          \* the fraud flag of the agent's class
    pc,                 \* where the agent is in its life cycle
    country, currency, card_id,
    stay, card_corrupted,
    avg_trans_per_hour, \* numerator over AvgDen
    trans_prob_month, trans_prob_monthday, trans_prob_weekday, trans_prob_hour,
    curr_merchant, curr_amount,
    \* the last call: its name, its return value, the error it raised, the
    \* number of values it took from random_state, and its local variables
    op, ret, err, n_draws,
    rand_addition,      \* __init__: the Gaussian addition drawn on line 23
    do_trans,           \* decide_making_transaction: the base decision
    merchant_ID,        \* pick_curr_merchant: the sampled merchant id
    victim              \* initialise_card_id: the chosen customer (0: none)

model_vars == <<params, customers, merchants, next_card_id>>
agent_vars == <<fraudster, pc, country, currency, card_id, stay, card_corrupted,
                avg_trans_per_hour, trans_prob_month, trans_prob_monthday,
                trans_prob_weekday, trans_prob_hour, curr_merchant, curr_amount>>
call_vars == <<op, ret, err, n_draws, rand_addition, do_trans, merchant_ID,
               victim>>
vars == <<model_vars, agent_vars, call_vars>>

\* Python's None
None == "None"

\* ------------------------------------------------------ parameter tables

Countries == {"US", "GB", "FR"}
Currencies == {"USD", "GBP", "EUR"}

\* params['country_frac']: one row per country, a column per class
\* (FALSE: genuine, TRUE: 'fraud'); only whether a fraction is zero matters
CountryFrac ==
    [c \in Countries |->
        [f \in BOOLEAN |-> IF f /\ c = "FR" THEN 0 ELSE 1]]

\* params['currency_per_country'][class]: rows indexed by (country, currency)
CurrencyPerCountry ==
    [f \in BOOLEAN |->
        IF f THEN {[country |-> "US", currency |-> "USD", p |-> 1],
                   [country |-> "GB", currency |-> "GBP", p |-> 1]}
             ELSE {[country |-> "US", currency |-> "USD", p |-> 1],
                   [country |-> "US", currency |-> "EUR", p |-> 1],
                   [country |-> "GB", currency |-> "GBP", p |-> 1],
                   [country |-> "FR", currency |-> "EUR", p |-> 1],
                   [country |-> "FR", currency |-> "USD", p |-> 1]}]

\* params['merchant_per_currency'][class]: rows indexed by currency, one
\* column per merchant id
MerchantIds == 1..3

MerchantPerCurrency ==
    [f \in BOOLEAN |->
        [k \in Currencies |->
            [m \in MerchantIds |->
                CASE k = "USD" -> (IF m = 3 THEN 0 ELSE 1)
                  [] k = "GBP" -> (IF m = 1 THEN 0 ELSE 1)
                  [] OTHER     -> (IF m = 3 THEN 1 ELSE 0)]]]

\* params['frac_month'], ['frac_monthday'], ['frac_weekday'], ['frac_hour']:
\* the class's mean curve of the given length
FracCurve(n) ==
    [f \in BOOLEAN |->
        [i \in 1..n |-> IF i % 3 = (IF f THEN 0 ELSE 1) THEN 0 ELSE 1]]

\* the denominator of avg_trans_per_hour
AvgDen == DaysPerYear * HoursPerDay

\* the parameter tables of one simulation run
ParamTables ==
    [noise_level           : {0, 1},
     trans_per_year        : {[f \in BOOLEAN |-> b] :
                                  b \in {0, MaxRateNoise - 1}},
     transaction_motivation : {[f \in BOOLEAN |-> IF f THEN 3 ELSE 1]},
     stay_prob             : {[f \in BOOLEAN |-> IF f THEN 0 ELSE UniformSteps - 1]},
     stay_after_fraud      : 0..UniformSteps,
     fraud_cards_in_genuine : 0..UniformSteps,
     country_frac          : {CountryFrac},
     currency_per_country  : {CurrencyPerCountry},
     merchant_per_currency : {MerchantPerCurrency},
     frac_month            : {FracCurve(MonthLen)},
     frac_monthday         : {FracCurve(MonthdayLen)},
     frac_weekday          : {FracCurve(WeekdayLen)},
     frac_hour             : {FracCurve(HourLen)}]

\* ------------------------------------------------------- the random state

\* random_state.uniform(0, 1, 1)[0]: a value in [0, 1), as a numerator
UniformDraws == 0..(UniformSteps - 1)

\* prob > uniform draw, both over UniformSteps
Exceeds(prob, u) == prob > u

\* random_state.normal(0, std, 1)[0]: exactly 0 when std = 0
NormalDraws(std) ==
    IF std = 0 THEN {0} ELSE (0 - MaxRateNoise)..MaxRateNoise

\* the perturbations of a multivariate-normal sample of length n that the
\* model draws: the odd entries lowered and the even ones raised by a
NoiseVectors(n) ==
    {[i \in 1..n |-> IF i % 2 = 0 THEN a ELSE 0 - a] : a \in 0..MaxCurveNoise}

\* random_state.multivariate_normal(mean, eye(n) * noise_level / d, 1)[0]:
\* the mean itself when the covariance is zero
MultivariateNormalDraws(mean, n) ==
    IF params.noise_level = 0
    THEN {mean}
    ELSE {[i \in 1..n |-> mean[i] + e[i]] : e \in NoiseVectors(n)}

\* random_state.choice(index, p = probs): an index entry of nonzero
\* probability
ChoiceDraws(probs) == {x \in DOMAIN probs : probs[x] # 0}

\* --------------------------------------------------- the orchestrator side

\* model.customers: the genuine customers, each with the fields the
\* fraudster reads; ids and cards were handed out in creation order
CustomerProfiles ==
    {[country |-> r.country, currency |-> r.currency, num_transactions |-> n] :
        r \in {x \in CurrencyPerCountry[FALSE] :
                  x.p # 0 /\ CountryFrac[x.country][FALSE] # 0},
        n \in {0, 1}}

Populations ==
    {[i \in 1..NumCustomers |->
        [unique_id |-> i, card_id |-> i, country |-> q[i].country,
         currency |-> q[i].currency,
         num_transactions |-> q[i].num_transactions]] :
        q \in [1..NumCustomers -> CustomerProfiles]}

\* model.merchants: the live merchant objects
MerchantRegistries ==
    {[i \in 1..Len(s) |-> [unique_id |-> s[i]]] :
        s \in {<<1, 2, 3>>, <<3, 1>>, <<>>}}

\* curr_merchant before the first purchase: no merchant object (registry
\* ids are positive)
NoMerchant == [unique_id |-> 0]

\* merchant.get_amount(customer): the amount the merchant asks
GetAmount(merchant) == 10 * merchant.unique_id

\* the local calendar times get_local_datetime() resolves to
LocalTimes ==
    {[month |-> 1, day |-> 1, weekday |-> 0, hour |-> 0],
     [month |-> 2, day |-> 2, weekday |-> 1, hour |-> 1],
     [month |-> 12, day |-> 31, weekday |-> 6, hour |-> 23]}

\* --------------------------------------------------------- call records

\* the call `name` returned r after taking n values from random_state
Returns(name, r, n) ==
    /\ op' = name
    /\ ret' = r
    /\ err' = None
    /\ n_draws' = n

\* the call `name` raised e after taking n values from random_state
Raises(name, e, n) ==
    /\ op' = name
    /\ ret' = None
    /\ err' = e
    /\ n_draws' = n

\* the local variables of the call (None: the call has no such local)
Locals(ra, dt, mid, v) ==
    /\ rand_addition' = ra
    /\ do_trans' = dt
    /\ merchant_ID' = mid
    /\ victim' = v

\* ------------------------------------------------------- initialisation

\* initialise_country
InitialiseCountry ==
    /\ pc = "new"
    /\ \E c \in ChoiceDraws([x \in Countries |->
                                params.country_frac[x][fraudster]]) :
          country' = c
    /\ pc' = "country"
    /\ Returns("initialise_country", None, 1)
    /\ Locals(None, None, None, None)
    /\ UNCHANGED <<model_vars, fraudster, currency, card_id, stay,
                   card_corrupted, avg_trans_per_hour, trans_prob_month,
                   trans_prob_monthday, trans_prob_weekday, trans_prob_hour,
                   curr_merchant, curr_amount>>

\* currency_prob.loc[self.country]: the row of one country
CurrencyRow(f, c) ==
    [k \in {r.currency : r \in {x \in params.currency_per_country[f] :
                                    x.country = c}} |->
        (CHOOSE r \in params.currency_per_country[f] :
            r.country = c /\ r.currency = k).p]

\* initialise_currency
InitialiseCurrency ==
    /\ pc = "country"
    /\ \E k \in ChoiceDraws(CurrencyRow(fraudster, country)) :
          currency' = k
    /\ pc' = "currency"
    /\ Returns("initialise_currency", None, 1)
    /\ Locals(None, None, None, None)
    /\ UNCHANGED <<model_vars, fraudster, country, card_id, stay,
                   card_corrupted, avg_trans_per_hour, trans_prob_month,
                   trans_prob_monthday, trans_prob_weekday, trans_prob_hour,
                   curr_merchant, curr_amount>>

\* the countries of nonzero fraud fraction
FraudsterCountries ==
    {c \in DOMAIN params.country_frac : params.country_frac[c][TRUE] # 0}

\* the currencies of the fraud currency table's index
FraudsterCurrencies ==
    {r.currency : r \in params.currency_per_country[TRUE]}

\* the ids of the customers that made a transaction
CustomersActiveIds ==
    {customers[i].unique_id :
        i \in {j \in DOMAIN customers : customers[j].num_transactions > 0}}

FraudTargetsIgnoringActivity ==
    {i \in DOMAIN customers :
        /\ customers[i].country \in FraudsterCountries
        /\ customers[i].currency \in FraudsterCurrencies}

\* the customers the fraudster picks from (their positions in model.customers)
FraudTargets ==
    {i \in DOMAIN customers :
        /\ customers[i].country \in FraudsterCountries
        /\ customers[i].currency \in FraudsterCurrencies
        /\ customers[i].unique_id \in CustomersActiveIds}

TargetInfoKeepingCurrency(customer) ==
    [card |-> customer.card_id, country |-> customer.country,
     currency |-> currency]

\* the information taken from the target
TargetInfo(customer) ==
    [card |-> customer.card_id, country |-> customer.country,
     currency |-> customer.currency]

\* UniMausCustomer.initialise_card_id: card = model.get_next_card_id()
BaseInitialiseCardId(n) ==
    /\ card_id' = next_card_id
    /\ next_card_id' = next_card_id + 1
    /\ Returns("initialise_card_id", next_card_id, n)
    /\ Locals(None, None, None, 0)
    /\ UNCHANGED <<country, currency>>

\* UniMausFraudulentCustomer.initialise_card_id
FraudInitialiseCardId ==
    \E u \in UniformDraws :
        IF Exceeds(params.fraud_cards_in_genuine, u)
        THEN IF FraudTargets = {}
             THEN \* choice raises ValueError, caught on line 179
                  BaseInitialiseCardId(1)
             ELSE \E v \in FraudTargets :
                     /\ card_id' = TargetInfo(customers[v]).card
                     /\ country' = TargetInfo(customers[v]).country
                     /\ currency' = TargetInfo(customers[v]).currency
                     /\ Returns("initialise_card_id",
                                TargetInfo(customers[v]).card, 2)
                     /\ Locals(None, None, None, v)
                     /\ UNCHANGED next_card_id
        ELSE BaseInitialiseCardId(1)

\* initialise_card_id, by the agent's class
InitialiseCardId ==
    /\ pc = "currency"
    /\ IF fraudster THEN FraudInitialiseCardId ELSE BaseInitialiseCardId(0)
    /\ pc' = "card"
    /\ UNCHANGED <<params, customers, merchants, fraudster, stay,
                   card_corrupted, avg_trans_per_hour, trans_prob_month,
                   trans_prob_monthday, trans_prob_weekday, trans_prob_hour,
                   curr_merchant, curr_amount>>

\* ------------------------------------------------- behavioural parameters

PerturbedRateUnguarded(trans_per_year, addition) ==
    trans_per_year + addition

PerturbedRateNonNegative(trans_per_year, addition) ==
    IF trans_per_year + addition >= 0
    THEN trans_per_year + addition
    ELSE trans_per_year

\* lines 24-25: the addition is kept only when the sum is above zero
PerturbedRate(trans_per_year, addition) ==
    IF trans_per_year + addition > 0
    THEN trans_per_year + addition
    ELSE trans_per_year

\* lines 26-27: trans_per_year / 366 / 24 * motivation, over AvgDen
AvgTransPerHour(trans_per_year, f) ==
    trans_per_year * params.transaction_motivation[f]

ClampNothing(curve) == curve

\* curve[curve < 0] = 0
ClampNegative(curve) ==
    [i \in DOMAIN curve |-> IF curve[i] < 0 THEN 0 ELSE curve[i]]

\* UniMausCustomer.__init__ after super().__init__(), and the field the
\* genuine class adds
Construct ==
    /\ pc = "card"
    /\ \E ra \in NormalDraws(params.noise_level * params.trans_per_year[fraudster]) :
          /\ avg_trans_per_hour' =
                AvgTransPerHour(
                    PerturbedRate(params.trans_per_year[fraudster], ra),
                    fraudster)
          /\ Locals(ra, None, None, None)
    /\ \E m \in MultivariateNormalDraws(params.frac_month[fraudster], MonthLen),
          d \in MultivariateNormalDraws(params.frac_monthday[fraudster], MonthdayLen),
          w \in MultivariateNormalDraws(params.frac_weekday[fraudster], WeekdayLen),
          h \in MultivariateNormalDraws(params.frac_hour[fraudster], HourLen) :
          /\ trans_prob_month' = ClampNegative(m)
          /\ trans_prob_monthday' = ClampNegative(d)
          /\ trans_prob_weekday' = ClampNegative(w)
          /\ trans_prob_hour' = ClampNegative(h)
    /\ card_corrupted' = FALSE
    /\ pc' = "live"
    /\ Returns("__init__", None, 5)
    /\ UNCHANGED <<model_vars, fraudster, country, currency, card_id, stay,
                   curr_merchant, curr_amount>>

\* ------------------------------------------------------------ decisions

\* get_curr_transaction_prob at local time t, as a numerator over
\* AvgDen * 2 (30.5 is 61 / 2)
GetCurrTransactionProb(t) ==
    avg_trans_per_hour
        * (12 * trans_prob_month[t.month])
        * (24 * trans_prob_hour[t.hour + 1])
        * (61 * trans_prob_monthday[t.day])
        * (7 * trans_prob_weekday[t.weekday + 1])

\* UniMausCustomer.decide_making_transaction: trans_prob > uniform draw
MakeTransaction(t, u) ==
    GetCurrTransactionProb(t) * UniformSteps > u * (AvgDen * 2)

LeaveAfterFraudByStay(u) ==
    Exceeds(params.stay_after_fraud, u)

\* line 147: (1 - stay_after_fraud) > uniform draw
LeaveAfterFraud(u) ==
    Exceeds(UniformSteps - params.stay_after_fraud, u)

FraudExitWithoutCorruption(base, leave_after_fraud) ==
    base /\ leave_after_fraud

\* line 148: do_trans and self.card_corrupted and leave_after_fraud
FraudExit(base, leave_after_fraud) ==
    base /\ card_corrupted /\ leave_after_fraud

GenuineDecideDrawsWhenNeeded(base) ==
    IF base /\ card_corrupted THEN 2 ELSE 1

\* the values a genuine decision takes from random_state: the uniform of
\* line 40 and the uniform of line 147, which is drawn before line 148 tests
\* anything
GenuineDecideDraws(base) == 2

\* decide_making_transaction, by the agent's class
DecideMakingTransaction ==
    /\ pc = "live"
    /\ \E t \in LocalTimes, u \in UniformDraws :
          LET base == MakeTransaction(t, u) IN
          IF fraudster
          THEN /\ Returns("decide_making_transaction", base, 1)
               /\ Locals(None, base, None, None)
               /\ UNCHANGED stay
          ELSE \E u2 \in UniformDraws :
                  LET exit == FraudExit(base, LeaveAfterFraud(u2)) IN
                  /\ stay' = IF exit THEN FALSE ELSE stay
                  /\ Returns("decide_making_transaction",
                             IF exit THEN FALSE ELSE base,
                             GenuineDecideDraws(base))
                  /\ Locals(None, base, None, None)
    /\ UNCHANGED <<model_vars, fraudster, pc, country, currency, card_id,
                   card_corrupted, avg_trans_per_hour, trans_prob_month,
                   trans_prob_monthday, trans_prob_weekday, trans_prob_hour,
                   curr_merchant, curr_amount>>

StayAfterRedraw(leave) == ~leave

\* lines 90-91: if leave: self.stay = False
StayAfterDecision(leave) == IF leave THEN FALSE ELSE stay

\* decide_staying
DecideStaying ==
    /\ pc = "live"
    /\ \E u \in UniformDraws :
          stay' = StayAfterDecision(
                      Exceeds(UniformSteps - params.stay_prob[fraudster], u))
    /\ Returns("decide_staying", None, 1)
    /\ Locals(None, None, None, None)
    /\ UNCHANGED <<model_vars, fraudster, pc, country, currency, card_id,
                   card_corrupted, avg_trans_per_hour, trans_prob_month,
                   trans_prob_monthday, trans_prob_weekday, trans_prob_hour,
                   curr_merchant, curr_amount>>

\* UniMausGenuineCustomer.card_got_corrupted
CardGotCorrupted ==
    /\ pc = "live"
    /\ ~fraudster
    /\ card_corrupted' = TRUE
    /\ Returns("card_got_corrupted", None, 0)
    /\ Locals(None, None, None, None)
    /\ UNCHANGED <<model_vars, fraudster, pc, country, currency, card_id, stay,
                   avg_trans_per_hour, trans_prob_month, trans_prob_monthday,
                   trans_prob_weekday, trans_prob_hour, curr_merchant,
                   curr_amount>>

\* ------------------------------------------------------------- purchases

MatchingOrAllMerchants(id) ==
    IF SelectSeq(merchants, LAMBDA m : m.unique_id = id) = <<>>
    THEN merchants
    ELSE SelectSeq(merchants, LAMBDA m : m.unique_id = id)

\* line 83: [m for m in self.model.merchants if m.unique_id == merchant_ID]
MatchingMerchants(id) ==
    SelectSeq(merchants, LAMBDA m : m.unique_id = id)

\* perform_transaction: pick_curr_merchant, then pick_curr_amount
PerformTransaction ==
    /\ pc = "live"
    /\ \E id \in ChoiceDraws(params.merchant_per_currency[fraudster][currency]) :
          /\ Locals(None, None, id, None)
          /\ IF MatchingMerchants(id) = <<>>
             THEN \* [...][0] raises IndexError before line 65 assigns
                  /\ Raises("perform_transaction", "IndexError", 1)
                  /\ pc' = "failed"
                  /\ UNCHANGED <<curr_merchant, curr_amount>>
             ELSE /\ curr_merchant' = MatchingMerchants(id)[1]
                  /\ curr_amount' = GetAmount(MatchingMerchants(id)[1])
                  /\ Returns("perform_transaction", None, 1)
                  /\ pc' = "live"
    /\ UNCHANGED <<model_vars, fraudster, country, currency, card_id, stay,
                   card_corrupted, avg_trans_per_hour, trans_prob_month,
                   trans_prob_monthday, trans_prob_weekday, trans_prob_hour>>

\* -------------------------------------------------------- specifications

\* a new agent of either class, before any of its fields is drawn
NewAgent ==
    /\ fraudster \in BOOLEAN
    /\ pc = "new"
    /\ country = None
    /\ currency = None
    /\ card_id = None
    /\ stay = TRUE
    /\ card_corrupted = FALSE
    /\ avg_trans_per_hour = None
    /\ trans_prob_month = None
    /\ trans_prob_monthday = None
    /\ trans_prob_weekday = None
    /\ trans_prob_hour = None
    /\ curr_merchant = NoMerchant
    /\ curr_amount = None
    /\ op = None
    /\ ret = None
    /\ err = None
    /\ n_draws = 0
    /\ rand_addition = None
    /\ do_trans = None
    /\ merchant_ID = None
    /\ victim = None

\* a population with one customer the fraudster can target
SamplePopulation ==
    [i \in 1..NumCustomers |->
        [unique_id |-> i, card_id |-> i,
         country |-> IF i = 1 THEN "GB" ELSE "FR",
         currency |-> IF i = 1 THEN "GBP" ELSE "EUR",
         num_transactions |-> IF i = 1 THEN 1 ELSE 0]]

\* the agent's whole life, of either class, for each stay_after_fraud and
\* each merchant registry, without noise
Init ==
    /\ params \in {q \in ParamTables :
                      /\ q.noise_level = 0
                      /\ q.trans_per_year[TRUE] # 0
                      /\ q.fraud_cards_in_genuine = 1}
    /\ customers = SamplePopulation
    /\ merchants \in MerchantRegistries
    /\ next_card_id = NumCustomers + 1
    /\ NewAgent

Next ==
    \/ InitialiseCountry
    \/ InitialiseCurrency
    \/ InitialiseCardId
    \/ Construct
    \/ DecideMakingTransaction
    \/ PerformTransaction
    \/ DecideStaying
    \/ CardGotCorrupted

Spec == Init /\ [][Next]_vars

\* the agent's whole life, of either class, for each noise level and each
\* base yearly rate
InitNoise ==
    /\ params \in {q \in ParamTables :
                      /\ q.stay_after_fraud = 1
                      /\ q.fraud_cards_in_genuine = 1}
    /\ customers = SamplePopulation
    /\ merchants = CHOOSE r \in MerchantRegistries : Len(r) = 2
    /\ next_card_id = NumCustomers + 1
    /\ NewAgent

SpecNoise == InitNoise /\ [][Next]_vars

\* the fraudster's card sourcing alone, over every population
InitCard ==
    /\ params \in {q \in ParamTables :
                      /\ q.noise_level = 0
                      /\ q.stay_after_fraud = 1
                      /\ q.trans_per_year[TRUE] # 0}
    /\ customers \in Populations
    /\ merchants = <<>>
    /\ next_card_id = NumCustomers + 1
    /\ NewAgent
    /\ fraudster

NextCard ==
    \/ InitialiseCountry
    \/ InitialiseCurrency
    \/ InitialiseCardId

SpecCard == InitCard /\ [][NextCard]_vars

\* ------------------------------------------------------------ properties

\* the agent has all its fields
Constructed == pc \in {"live", "failed"}

\* C1: once stay is false it is false in every later state: no operation
\* sets it back to true
C1_StayNeverResets == [][stay = FALSE => stay' = FALSE]_vars

\* a genuine agent that had already left was asked again and its decision
\* (a transaction) left stay false
C1_Witness ==
    /\ ~fraudster
    /\ stay = FALSE
    /\ op = "decide_making_transaction"
    /\ ret = TRUE

\* C2: for a genuine agent with a corrupted card and stay_after_fraud = 0,
\* every decide_making_transaction whose base decision is true returns False
\* and leaves stay = False, whatever the second uniform draw is
C2_CorruptedAlwaysLeaves ==
    [][(/\ pc = "live"
        /\ op' = "decide_making_transaction"
        /\ ~fraudster
        /\ card_corrupted
        /\ params.stay_after_fraud = 0
        /\ do_trans' = TRUE)
       => (ret' = FALSE /\ stay' = FALSE)]_vars

C2_Witness ==
    /\ ~fraudster
    /\ card_corrupted
    /\ params.stay_after_fraud = 0
    /\ op = "decide_making_transaction"
    /\ do_trans = TRUE
    /\ ret = FALSE
    /\ stay = FALSE

\* no customer is in a fraud country, has a fraud currency and has made a
\* transaction
NoEligibleCustomer ==
    \A i \in DOMAIN customers :
        ~ (/\ customers[i].country \in FraudsterCountries
           /\ customers[i].currency \in FraudsterCurrencies
           /\ customers[i].num_transactions > 0)

\* C3: when no customer satisfies the three constraints, the fraudster's
\* initialise_card_id raises nothing, returns the card of
\* model.get_next_card_id() and leaves country and currency as they were
C3_FallbackWhenNoTarget ==
    [][(/\ pc = "currency"
        /\ fraudster
        /\ op' = "initialise_card_id"
        /\ NoEligibleCustomer)
       => (/\ err' = None
           /\ ret' = next_card_id
           /\ card_id' = next_card_id
           /\ next_card_id' = next_card_id + 1
           /\ victim' = 0
           /\ country' = country
           /\ currency' = currency)]_vars

\* the search was certainly attempted, among customers of which one has made
\* a transaction and one is in a fraud country with a fraud currency, and
\* the fraudster holds the fresh card
C3_Witness ==
    /\ pc = "card"
    /\ fraudster
    /\ params.fraud_cards_in_genuine = UniformSteps
    /\ NoEligibleCustomer
    /\ \E i \in DOMAIN customers : customers[i].num_transactions > 0
    /\ FraudTargetsIgnoringActivity # {}
    /\ card_id = NumCustomers + 1
    /\ ret = card_id
    /\ err = None

\* C4: when the victim search succeeds, the victim is a customer in a fraud
\* country, with a fraud currency and with num_transactions > 0, the
\* fraudster's returned card, country and currency are the victim's, and no
\* fresh card id is taken
C4_AdoptsVictim ==
    [][(/\ pc = "currency"
        /\ fraudster
        /\ op' = "initialise_card_id"
        /\ victim' # 0)
       => (/\ victim' \in DOMAIN customers
           /\ customers[victim'].country \in FraudsterCountries
           /\ customers[victim'].currency \in FraudsterCurrencies
           /\ customers[victim'].num_transactions > 0
           /\ ret' = customers[victim'].card_id
           /\ card_id' = customers[victim'].card_id
           /\ country' = customers[victim'].country
           /\ currency' = customers[victim'].currency
           /\ next_card_id' = next_card_id)]_vars

\* the fraudster took the second customer's card, next to a first customer
\* of another country who has made no transaction
C4_Witness ==
    /\ pc = "card"
    /\ fraudster
    /\ victim = 2
    /\ card_id = customers[2].card_id
    /\ country = "GB"
    /\ currency = "GBP"
    /\ customers[1].country = "US"
    /\ customers[1].num_transactions = 0

NonNegativeCurve(curve, n) ==
    /\ DOMAIN curve = 1..n
    /\ \A i \in 1..n : curve[i] >= 0

\* C5: after initialise_transaction_probabilities every entry of the four
\* curves (12, 31, 7 and 24 entries) is >= 0, whatever the noise, and no
\* later operation changes the curves
C5_CurvesNonNegative ==
    /\ [](Constructed =>
            /\ NonNegativeCurve(trans_prob_month, MonthLen)
            /\ NonNegativeCurve(trans_prob_monthday, MonthdayLen)
            /\ NonNegativeCurve(trans_prob_weekday, WeekdayLen)
            /\ NonNegativeCurve(trans_prob_hour, HourLen))
    /\ [][Constructed =>
            UNCHANGED <<trans_prob_month, trans_prob_monthday,
                        trans_prob_weekday, trans_prob_hour>>]_vars

\* a noisy draw fell below zero at the first month (the mean is 0 there and
\* the second month was raised), and the agent has acted since
C5_Witness ==
    /\ pc = "live"
    /\ ~fraudster
    /\ params.noise_level > 0
    /\ params.frac_month[fraudster][1] = 0
    /\ trans_prob_month[1] = 0
    /\ trans_prob_month[2] > params.frac_month[fraudster][2]
    /\ op = "decide_making_transaction"

\* C6: avg_trans_per_hour is >= 0 after initialisation and in every later
\* state, whatever the Gaussian addition is
C6_RateNonNegative == Constructed => avg_trans_per_hour >= 0

\* the Gaussian addition would have made the yearly rate negative
C6_Witness ==
    /\ op = "__init__"
    /\ params.trans_per_year[fraudster] + rand_addition < 0
    /\ avg_trans_per_hour >= 0

\* C7: perform_transaction with a sampled merchant id that no registry
\* merchant has fails with a lookup error and leaves curr_merchant and
\* curr_amount unchanged; with a match, curr_merchant is a registry merchant
\* of that id
C7_MerchantLookup ==
    [][(pc = "live" /\ op' = "perform_transaction")
       => IF \E i \in DOMAIN merchants : merchants[i].unique_id = merchant_ID'
          THEN /\ err' = None
               /\ \E i \in DOMAIN merchants : curr_merchant' = merchants[i]
               /\ curr_merchant'.unique_id = merchant_ID'
          ELSE /\ err' = "IndexError"
               /\ curr_merchant' = curr_merchant
               /\ curr_amount' = curr_amount]_vars

\* a lookup failed after an earlier purchase, whose merchant and amount the
\* agent still holds
C7_Witness ==
    /\ err = "IndexError"
    /\ op = "perform_transaction"
    /\ curr_merchant # NoMerchant
    /\ curr_merchant.unique_id # merchant_ID
    /\ curr_amount = GetAmount(curr_merchant)

\* C8 as stated: the Gaussian addition is rejected exactly when base +
\* addition is negative; a sum of zero or more is the rate used
C8_RejectedWhenNegative ==
    op = "__init__" =>
        avg_trans_per_hour =
            (IF params.trans_per_year[fraudster] + rand_addition >= 0
             THEN params.trans_per_year[fraudster] + rand_addition
             ELSE params.trans_per_year[fraudster])
                * params.transaction_motivation[fraudster]

\* C8 amended: the Gaussian addition is rejected exactly when base +
\* addition is zero or negative; a sum above zero is the rate used
C8_RejectedWhenNotPositive ==
    op = "__init__" =>
        avg_trans_per_hour =
            (IF params.trans_per_year[fraudster] + rand_addition > 0
             THEN params.trans_per_year[fraudster] + rand_addition
             ELSE params.trans_per_year[fraudster])
                * params.transaction_motivation[fraudster]

\* the addition cancelled a nonzero base rate exactly, and the base rate
\* was kept
C8_Witness ==
    /\ op = "__init__"
    /\ params.trans_per_year[fraudster] > 0
    /\ params.trans_per_year[fraudster] + rand_addition = 0
    /\ avg_trans_per_hour =
          params.trans_per_year[fraudster]
              * params.transaction_motivation[fraudster]

\* C9 as stated: a genuine decision takes the second uniform value only when
\* the base decision is true and the card is corrupted, and one value
\* otherwise
C9_SecondDrawOnlyWhenNeeded ==
    (op = "decide_making_transaction" /\ ~fraudster) =>
        n_draws = (IF do_trans /\ card_corrupted THEN 2 ELSE 1)

\* C9 amended: a genuine decision takes the second uniform value on every
\* call, two values in all, and that value changes the result only when the
\* base decision is true and the card is corrupted
C9_SecondDrawAlways ==
    (op = "decide_making_transaction" /\ ~fraudster) =>
        /\ n_draws = 2
        /\ ~(do_trans /\ card_corrupted) => ret = do_trans

\* a genuine decision with a false base decision and a sound card
C9_Witness ==
    /\ op = "decide_making_transaction"
    /\ ~fraudster
    /\ do_trans = FALSE
    /\ ~card_corrupted
    /\ n_draws = 2
    /\ ret = FALSE

\* C10: a genuine decide_making_transaction leaves stay as it was whenever
\* it returns True and whenever the card is not corrupted; a fraudulent one
\* never changes stay
C10_StayChangesOnlyOnFraudExit ==
    [][(pc = "live" /\ op' = "decide_making_transaction")
       => /\ fraudster => stay' = stay
          /\ ret' = TRUE => stay' = stay
          /\ ~card_corrupted => stay' = stay]_vars

\* a genuine agent with a corrupted card decided to transact and stays
C10_Witness ==
    /\ ~fraudster
    /\ op = "decide_making_transaction"
    /\ card_corrupted
    /\ do_trans = TRUE
    /\ ret = TRUE
    /\ stay = TRUE

====
